---- MODULE Spec2Model ----
(***************************************************************************)
(* DocumentMatcher (src/main.py): sample registry, document history, match *)
(* groups, the two persisted tables, and the batch handler lambda_handler. *)
(*                                                                         *)
(* JSON / Python values are records [kind, s, items]:                      *)
(*   kind = "str"   a string scalar, s its text                            *)
(*   kind = "dict"  a mapping, items its entries [key, value] in insertion *)
(*                  order (Python dicts are ordered, compare unordered)    *)
(*   kind = "list"  a list, items its elements (entry keys unused)         *)
(*   kind = "invalid" a message body that is not JSON text                 *)
(* Every value has the same record shape, so every comparison is typed.    *)
(***************************************************************************)
EXTENDS Integers, Sequences, FiniteSets, TLC

VARIABLES samples, documents, matches, sample_table, matched_table,
          last_op, last_doc, last_result, outcomes, put_log

vars == <<samples, documents, matches, sample_table, matched_table,
          last_op, last_doc, last_result, outcomes, put_log>>

(* ------------------------------ bounds -------------------------------- *)
MaxDocs == 3
MaxBatch == 2
ChainDocs == 4

(* ------------------------------ values -------------------------------- *)
E(k, v) == [key |-> k, value |-> v]
Str(x) == [kind |-> "str", s |-> x, items |-> <<>>]
Dict(entries) == [kind |-> "dict", s |-> "", items |-> entries]
List(elems) == [kind |-> "list", s |-> "", items |-> [i \in 1..Len(elems) |-> E("", elems[i])]]
Invalid == [kind |-> "invalid", s |-> "{", items |-> <<>>]
NoDoc == [kind |-> "none", s |-> "", items |-> <<>>]

Range(f) == {f[i] : i \in DOMAIN f}

(* Python ==: dicts compare by key set and per-key value, whatever the     *)
(* insertion order; lists element by element; strings by text.            *)
RECURSIVE PyEq(_, _)
PyEq(v, w) ==
    IF v.kind # w.kind THEN FALSE
    ELSE IF v.kind = "dict" THEN
        /\ {e.key : e \in Range(v.items)} = {e.key : e \in Range(w.items)}
        /\ \A i \in DOMAIN v.items : \A j \in DOMAIN w.items :
              v.items[i].key = w.items[j].key => PyEq(v.items[i].value, w.items[j].value)
    ELSE IF v.kind = "list" THEN
        /\ Len(v.items) = Len(w.items)
        /\ \A i \in DOMAIN v.items : PyEq(v.items[i].value, w.items[i].value)
    ELSE v.s = w.s

(* membership by identity of representation instead of by == *)
PyIn_same_object(x, seq) == \E i \in DOMAIN seq : x = seq[i]

(* x in seq (list membership, values view membership): some element == x  *)
PyIn(x, seq) == \E i \in DOMAIN seq : PyEq(x, seq[i])

(* ----------------------- Python dict operations ----------------------- *)
Keys(entries) == {entries[i].key : i \in DOMAIN entries}
HasKey(entries, k) == k \in Keys(entries)
Get(entries, k) == (CHOOSE e \in Range(entries) : e.key = k).value
Values(entries) == [i \in DOMAIN entries |-> entries[i].value]

(* d[k] = v: an existing key keeps its position, a new key goes last      *)
DictSet(entries, k, v) ==
    IF HasKey(entries, k)
    THEN [i \in DOMAIN entries |-> IF entries[i].key = k THEN E(k, v) ELSE entries[i]]
    ELSE Append(entries, E(k, v))

(* d.update(other) *)
RECURSIVE DictUpdate(_, _)
DictUpdate(entries, other) ==
    IF other = <<>> THEN entries
    ELSE DictUpdate(DictSet(entries, Head(other).key, Head(other).value), Tail(other))

(* ------------------------------ flatten ------------------------------- *)
(* new_key = f"{parent_key}{sep}{key}" if parent_key else key              *)
new_key(parent_key, key) ==
    IF parent_key # "" THEN parent_key \o "." \o key ELSE key

(* The body of flatten_doc's loop from entry i on, flattened_doc so far in *)
(* acc; the recursive call receives key (not new_key) as its parent_key.   *)
RECURSIVE flatten_items(_, _, _, _)
flatten_items(items, i, parent_key, acc) ==
    IF i > Len(items) THEN acc
    ELSE LET key == items[i].key
             value == items[i].value
         IN IF value.kind = "dict"
            THEN flatten_items(items, i + 1, parent_key,
                     DictUpdate(acc, flatten_items(value.items, 1, key, <<>>)))
            ELSE flatten_items(items, i + 1, parent_key,
                     DictSet(acc, new_key(parent_key, key), value))

flatten_doc(doc) == flatten_items(doc.items, 1, "", <<>>)

(* doc.items() of a value that is no dict raises AttributeError *)
flatten_raises(doc) == doc.kind # "dict"

(* ------------------------- the input universe ------------------------- *)
SampleIds == {"s1", "s2"}

SD1 == Dict(<<E("a", Str("x")), E("b", Str("y"))>>)
SD2 == Dict(<<E("a", Dict(<<E("in", Str("z"))>>)), E("b", Str("w"))>>)
SampleDescriptions == {SD1, SD2}
(* the add_sample calls made: s1 is registered, s2 is registered and       *)
(* overwritten with either description                                    *)
SampleCalls == {<<"s1", SD1>>, <<"s2", SD1>>, <<"s2", SD2>>}

DA == Dict(<<E("k", Str("p"))>>)
DB == Dict(<<E("j", Str("p")), E("m", Str("q"))>>)
DC == Dict(<<E("k", Str("q")), E("m", Str("x"))>>)
DCr == Dict(<<E("m", Str("x")), E("k", Str("q"))>>)
DN == Dict(<<E("a", Dict(<<E("b", Dict(<<E("c", Str("x"))>>))>>)),
             E("d", Dict(<<E("b", Dict(<<E("c", Str("p"))>>))>>)),
             E("o", Dict(<<E("in", Str("z"))>>)),
             E("l", List(<<Str("x")>>))>>)
DL == List(<<Str("x")>>)

(* add_document(document: Dict) is called with mappings; a message body   *)
(* decodes to any JSON value or fails to decode                            *)
DictDocuments == {DA, DB, DC, DCr, DN}
Bodies == {DB, DC, DL, Invalid}

RECURSIVE SeqsUpTo(_, _)
SeqsUpTo(S, n) ==
    IF n = 0 THEN {<<>>}
    ELSE LET shorter == SeqsUpTo(S, n - 1)
         IN shorter \cup {Append(q, x) : q \in shorter, x \in S}

(* ---------------------------- the matcher ----------------------------- *)
(* self: the DocumentMatcher object and the two tables it writes; puts    *)
(* collects the items a call writes with matched_table.put_item, in order. *)
Self == [samples |-> samples, documents |-> documents, matches |-> matches,
         sample_table |-> sample_table, matched_table |-> matched_table,
         puts |-> <<>>]

(* table.put_item(Item): the table's hash key is sample_id, so the item    *)
(* replaces whatever item the table holds under the same sample_id.        *)
put_item(table, item) ==
    {it \in table : it.sample_id # item.sample_id} \cup {item}

(* direct_match returns None where no sample matched *)
None == <<>>

(* the sample description flattened like the document before comparing    *)
sample_matches_flattened(sample_desc, document) ==
    \E i \in DOMAIN document :
        PyIn(document[i].value, Values(flatten_doc(sample_desc)))

(* any(doc_value in sample_desc.values() for doc_value in document.values()) *)
sample_matches(sample_desc, document) ==
    \E i \in DOMAIN document :
        PyIn(document[i].value, Values(sample_desc.items))

RECURSIVE direct_match_loop(_, _, _, _)
direct_match_loop(self, document, i, matched_samples) ==
    IF i > Len(self.samples)
    THEN (IF matched_samples # <<>> THEN matched_samples ELSE None)
    ELSE direct_match_loop(self, document, i + 1,
             IF sample_matches(self.samples[i].value, document)
             THEN Append(matched_samples, self.samples[i].key)
             ELSE matched_samples)

(* returning at the first matching sample *)
direct_match_first(self, document) ==
    LET all == direct_match_loop(self, document, 1, <<>>)
    IN IF all = <<>> THEN None ELSE <<all[1]>>

direct_match(self, document) == direct_match_loop(self, document, 1, <<>>)

(* for key1 in doc: a dict yields its keys, a list its elements, a string *)
(* its characters                                                         *)
iter_len(doc) == IF doc.kind = "str" THEN Len(doc.s) ELSE Len(doc.items)

(* comparing only the values the two documents hold under the same key   *)
any_field_equal_same_key(doc, match_doc) ==
    IF doc.kind = "dict" /\ match_doc.kind = "dict"
    THEN (IF \E i \in DOMAIN doc.items : \E j \in DOMAIN match_doc.items :
                /\ doc.items[i].key = match_doc.items[j].key
                /\ PyEq(doc.items[i].value, match_doc.items[j].value)
          THEN "true" ELSE "false")
    ELSE IF iter_len(doc) > 0 /\ iter_len(match_doc) > 0 THEN "raise" ELSE "false"

(* comparing the keys of the two documents instead of their values        *)
any_field_equal_keys(doc, match_doc) ==
    IF doc.kind = "dict" /\ match_doc.kind = "dict"
    THEN (IF \E i \in DOMAIN doc.items : \E j \in DOMAIN match_doc.items :
                doc.items[i].key = match_doc.items[j].key
          THEN "true" ELSE "false")
    ELSE IF iter_len(doc) > 0 /\ iter_len(match_doc) > 0 THEN "raise" ELSE "false"

(* any(doc[key1] == match_doc[key2] for key1 in doc for key2 in match_doc) *)
(* "true", "false", or "raise": doc[key1] of a list or a string with a     *)
(* non-integer key1 raises TypeError the first time it is evaluated, which *)
(* happens when both loops have an element.                                *)
any_field_equal(doc, match_doc) ==
    IF doc.kind = "dict" /\ match_doc.kind = "dict"
    THEN (IF \E i \in DOMAIN doc.items : \E j \in DOMAIN match_doc.items :
                PyEq(doc.items[i].value, match_doc.items[j].value)
          THEN "true" ELSE "false")
    ELSE IF iter_len(doc) > 0 /\ iter_len(match_doc) > 0 THEN "raise" ELSE "false"

(* the new member put first instead of last *)
store_match_insert_first(self, match_id, doc) ==
    [self EXCEPT
       !.matches = DictSet(@, match_id, <<doc>> \o Get(@, match_id)),
       !.matched_table = put_item(@, [sample_id |-> match_id, description |-> doc]),
       !.puts = Append(@, [sample_id |-> match_id, description |-> doc])]

(* self.matches[match_id].append(doc); self.matched_table.put_item(...)    *)
store_match(self, match_id, doc) ==
    [self EXCEPT
       !.matches = DictSet(@, match_id, Append(Get(@, match_id), doc)),
       !.matched_table = put_item(@, [sample_id |-> match_id, description |-> doc]),
       !.puts = Append(@, [sample_id |-> match_id, description |-> doc])]

(* for match_doc in match_docs: the list is read by index while it grows,  *)
(* so a member appended during the loop is visited by the same loop.       *)
RECURSIVE scan_members(_, _, _, _)
scan_members(st, doc, g, m) ==
    IF st.raised \/ m > Len(st.self.matches[g].value) THEN st
    ELSE LET match_id == st.self.matches[g].key
             match_doc == st.self.matches[g].value[m]
         IN IF PyEq(doc, match_doc) THEN scan_members(st, doc, g, m + 1)
            ELSE LET hit == any_field_equal(doc, match_doc)
                 IN IF hit = "raise" THEN [st EXCEPT !.raised = TRUE]
                    ELSE IF hit = "true" /\ ~PyIn(doc, Get(st.self.matches, match_id))
                    THEN scan_members([st EXCEPT !.self = store_match(@, match_id, doc)],
                                      doc, g, m + 1)
                    ELSE scan_members(st, doc, g, m + 1)

(* for match_id, match_docs in self.matches.items() *)
RECURSIVE scan_groups(_, _, _)
scan_groups(st, doc, g) ==
    IF st.raised \/ g > Len(st.self.matches) THEN st
    ELSE scan_groups(scan_members(st, doc, g, 1), doc, g + 1)

(* for doc in self.documents *)
RECURSIVE scan_documents(_, _)
scan_documents(st, d) ==
    IF st.raised \/ d > Len(st.self.documents) THEN st
    ELSE scan_documents(scan_groups(st, st.self.documents[d], 1), d + 1)

(* the rescan limited to the document just added                          *)
indirect_match_new_only(self) ==
    scan_groups([self |-> self, raised |-> FALSE],
                self.documents[Len(self.documents)], 1)

indirect_match(self) == scan_documents([self |-> self, raised |-> FALSE], 1)

(* the put_item of the direct match moved out of the membership test      *)
RECURSIVE seed_groups_always_put(_, _, _, _)
seed_groups_always_put(self, document, matched_sample_ids, i) ==
    IF i > Len(matched_sample_ids) THEN self
    ELSE LET sample_id == matched_sample_ids[i]
             item == [sample_id |-> sample_id, description |-> document]
             created == IF HasKey(self.matches, sample_id) THEN self
                        ELSE [self EXCEPT !.matches = DictSet(@, sample_id, <<>>)]
             stored == IF ~PyIn(document, Get(created.matches, sample_id))
                       THEN [created EXCEPT !.matches =
                                DictSet(@, sample_id, Append(Get(@, sample_id), document))]
                       ELSE created
             written == [stored EXCEPT !.matched_table = put_item(@, item),
                                       !.puts = Append(@, item)]
         IN seed_groups_always_put(written, document, matched_sample_ids, i + 1)

(* for sample_id in matched_sample_ids: create the group, append, persist  *)
RECURSIVE seed_groups(_, _, _, _)
seed_groups(self, document, matched_sample_ids, i) ==
    IF i > Len(matched_sample_ids) THEN self
    ELSE LET sample_id == matched_sample_ids[i]
             created == IF HasKey(self.matches, sample_id) THEN self
                        ELSE [self EXCEPT !.matches = DictSet(@, sample_id, <<>>)]
             stored == IF ~PyIn(document, Get(created.matches, sample_id))
                       THEN store_match(created, sample_id, document)
                       ELSE created
         IN seed_groups(stored, document, matched_sample_ids, i + 1)

(* the document matched and stored without being put in the history       *)
add_document_no_history(self, document) ==
    IF flatten_raises(document) THEN [self |-> self, raised |-> TRUE]
    ELSE indirect_match(seed_groups(self, document,
                                    direct_match(self, flatten_doc(document)), 1))

(* add_document: [self, raised]; an exception leaves what was done so far  *)
add_document(self, document) ==
    LET appended == [self EXCEPT !.documents = Append(@, document)]
    IN IF flatten_raises(document) THEN [self |-> appended, raised |-> TRUE]
       ELSE LET flattened_doc == flatten_doc(document)
                matched_sample_ids == direct_match(appended, flattened_doc)
            IN indirect_match(seed_groups(appended, document, matched_sample_ids, 1))

(* the history matched again against the registry after the new sample   *)
RECURSIVE rematch(_, _)
rematch(self, d) ==
    IF d > Len(self.documents) THEN self
    ELSE LET doc == self.documents[d]
         IN IF flatten_raises(doc) THEN rematch(self, d + 1)
            ELSE rematch(seed_groups(self, doc, direct_match(self, flatten_doc(doc)), 1),
                         d + 1)

add_sample_rematch(self, sample_id, sample_description) ==
    rematch([self EXCEPT
               !.samples = DictSet(@, sample_id, sample_description),
               !.sample_table = put_item(@, [sample_id |-> sample_id,
                                             description |-> sample_description])], 1)

(* the group of the sample created, empty, when the sample is registered   *)
add_sample_creates_group(self, sample_id, sample_description) ==
    [self EXCEPT
       !.samples = DictSet(@, sample_id, sample_description),
       !.sample_table = put_item(@, [sample_id |-> sample_id,
                                     description |-> sample_description]),
       !.matches = IF HasKey(@, sample_id) THEN @ ELSE DictSet(@, sample_id, <<>>)]

add_sample(self, sample_id, sample_description) ==
    [self EXCEPT
       !.samples = DictSet(@, sample_id, sample_description),
       !.sample_table = put_item(@, [sample_id |-> sample_id,
                                     description |-> sample_description])]

(* json.loads(record['body']) *)
json_loads_raises(body) == body.kind = "invalid"
json_loads(body) == body

(* the records taken from the end of the batch first *)
RECURSIVE handle_records_reversed(_, _, _, _)
handle_records_reversed(self, records, i, done) ==
    IF i > Len(records) THEN [self |-> self, result |-> "200", outcomes |-> done]
    ELSE LET body == records[Len(records) + 1 - i]
         IN IF json_loads_raises(body)
            THEN [self |-> self, result |-> "raised",
                  outcomes |-> Append(done, "decode_error")]
            ELSE LET r == add_document(self, json_loads(body))
                 IN IF r.raised
                    THEN [self |-> r.self, result |-> "500",
                          outcomes |-> Append(done, "add_document_error")]
                    ELSE handle_records_reversed(r.self, records, i + 1, Append(done, "ok"))

(* lambda_handler from record i on: [self, result, outcomes]. result is    *)
(* "200" or "500" for a returned response, "raised" when the exception     *)
(* leaves lambda_handler (json.loads is outside the try block).            *)
RECURSIVE handle_records(_, _, _, _)
handle_records(self, records, i, done) ==
    IF i > Len(records) THEN [self |-> self, result |-> "200", outcomes |-> done]
    ELSE IF json_loads_raises(records[i])
    THEN [self |-> self, result |-> "raised", outcomes |-> Append(done, "decode_error")]
    ELSE LET r == add_document(self, json_loads(records[i]))
         IN IF r.raised
            THEN [self |-> r.self, result |-> "500",
                  outcomes |-> Append(done, "add_document_error")]
            ELSE handle_records(r.self, records, i + 1, Append(done, "ok"))

lambda_handler(self, records) == handle_records(self, records, 1, <<>>)

(* ------------------------------ actions ------------------------------- *)
(* last_op, last_result and outcomes record the most recent call: its      *)
(* name; "ok" or "raised" for add_sample and add_document, the status code *)
(* or "raised" for lambda_handler; and what became of each record the      *)
(* handler got to. last_doc is the argument of the most recent call of     *)
(* add_document, made directly or by lambda_handler. put_log holds the     *)
(* items the most recent call wrote to the matched table, in order.        *)
Init ==
    /\ samples = <<>>
    /\ documents = <<>>
    /\ matches = <<>>
    /\ sample_table = {}
    /\ matched_table = {}
    /\ last_op = "init"
    /\ last_doc = NoDoc
    /\ last_result = "ok"
    /\ outcomes = <<>>
    /\ put_log = <<>>

Install(self) ==
    /\ samples' = self.samples
    /\ documents' = self.documents
    /\ matches' = self.matches
    /\ sample_table' = self.sample_table
    /\ matched_table' = self.matched_table
    /\ put_log' = self.puts

AddSampleCall(sample_id, sample_description) ==
    /\ Install(add_sample(Self, sample_id, sample_description))
    /\ last_op' = "add_sample"
    /\ last_result' = "ok"
    /\ outcomes' = <<>>
    /\ UNCHANGED last_doc

AddSample ==
    \E call \in SampleCalls : AddSampleCall(call[1], call[2])

AddDocumentStep(document) ==
    /\ \E r \in {add_document(Self, document)} :
          /\ Install(r.self)
          /\ last_result' = IF r.raised THEN "raised" ELSE "ok"
    /\ last_op' = "add_document"
    /\ last_doc' = document
    /\ outcomes' = <<>>

AddDocumentCall(document) ==
    /\ Len(documents) < MaxDocs
    /\ AddDocumentStep(document)

AddDocument == \E document \in DictDocuments : AddDocumentCall(document)

LambdaHandlerCall(records) ==
    /\ Len(documents) + Len(records) <= MaxDocs
    /\ \E r \in {lambda_handler(Self, records)} :
          /\ Install(r.self)
          /\ last_result' = r.result
          /\ outcomes' = r.outcomes
          /\ last_doc' = LET calls == {i \in DOMAIN r.outcomes : r.outcomes[i] # "decode_error"}
                         IN IF calls = {} THEN last_doc
                            ELSE json_loads(records[Cardinality(calls)])
    /\ last_op' = "lambda_handler"

LambdaHandler == \E records \in SeqsUpTo(Bodies, MaxBatch) : LambdaHandlerCall(records)

Next == AddSample \/ AddDocument \/ LambdaHandler

Spec == Init /\ [][Next]_vars

(* a longer history of the three documents linked in a chain (DA - DB by   *)
(* "p", DB - DC by "q", DC matching the description SD1 by "x"), with the  *)
(* samples registered at any point                                         *)
ChainDocuments == {DA, DB, DC}
ChainSampleCalls == {<<"s1", SD1>>, <<"s2", SD1>>}

ChainAddSample ==
    \E call \in ChainSampleCalls : AddSampleCall(call[1], call[2])

ChainAddDocument ==
    \E document \in ChainDocuments :
        /\ Len(documents) < ChainDocs
        /\ AddDocumentStep(document)

NextChain == ChainAddSample \/ ChainAddDocument

SpecChain == Init /\ [][NextChain]_vars

(* ===================== vocabulary of the properties ==================== *)
Group(sample_id) == IF HasKey(matches, sample_id) THEN Get(matches, sample_id) ELSE <<>>

(* The most recent add_document call, direct or made by lambda_handler,   *)
(* returned without raising.                                               *)
AddDocumentReturned ==
    \/ last_op = "add_document" /\ last_result = "ok"
    \/ /\ last_op = "lambda_handler"
       /\ \E i \in DOMAIN outcomes : outcomes[i] = "ok"
       /\ \A i \in DOMAIN outcomes : outcomes[i] # "add_document_error"

(* the field values of a document: the values under its top-level keys *)
FieldValues(d) == IF d.kind = "dict" THEN Range(Values(d.items)) ELSE {}
SharesValue(d, m) == \E v \in FieldValues(d) : \E w \in FieldValues(m) : PyEq(v, w)
ValueLinked(d, m) == ~PyEq(d, m) /\ SharesValue(d, m)

IsPrefix(p, q) == Len(p) <= Len(q) /\ \A i \in DOMAIN p : p[i] = q[i]

(* the leaf values of a nested mapping, at any depth *)
RECURSIVE Leaves(_)
Leaves(v) ==
    IF v.kind = "dict" THEN UNION {Leaves(e.value) : e \in Range(v.items)} ELSE {v}

(* <<dotted path from the root, leaf>> for every leaf under items *)
RECURSIVE LeafPaths(_, _)
LeafPaths(items, prefix) ==
    UNION {LET path == IF prefix = "" THEN e.key ELSE prefix \o "." \o e.key
           IN IF e.value.kind = "dict" THEN LeafPaths(e.value.items, path)
              ELSE {<<path, e.value>>} : e \in Range(items)}

SampleHasValue(sample_desc, v) == \E w \in Range(Values(sample_desc.items)) : PyEq(v, w)

(* =============================== claims ================================ *)

(* C1: no match group ever holds two value-equal documents, whatever the  *)
(* sequence of add_sample, add_document and lambda_handler calls.         *)
C1_NoDuplicateMember ==
    \A g \in DOMAIN matches :
        \A i, j \in DOMAIN matches[g].value :
            i # j => ~PyEq(matches[g].value[i], matches[g].value[j])

(* a document was ingested again with its keys in another order, its      *)
(* group holds it once next to a second member it is value-linked to       *)
C1_Witness ==
    \E g \in DOMAIN matches :
        /\ Len(matches[g].value) >= 2
        /\ \E i, j \in DOMAIN documents :
              /\ i < j
              /\ documents[i] # documents[j]
              /\ PyEq(documents[i], documents[j])
              /\ PyIn(documents[i], matches[g].value)

(* C2: every step leaves the old history a prefix of the new one and each  *)
(* old group, at its place, a prefix of the new group; add_document(d)     *)
(* appends exactly d to the history, duplicate or not.                     *)
C2_OnlyGrow ==
    [][/\ IsPrefix(documents, documents')
       /\ \A g \in DOMAIN matches :
             /\ g \in DOMAIN matches'
             /\ matches'[g].key = matches[g].key
             /\ IsPrefix(matches[g].value, matches'[g].value)
       /\ last_op' = "add_document" => documents' = Append(documents, last_doc')
      ]_vars

(* the same document ingested twice in a row, and a group that grew to two *)
C2_Witness ==
    /\ Len(documents) = 3
    /\ documents[2] = documents[3]
    /\ \E g \in DOMAIN matches : Len(matches[g].value) = 2

(* C3: when add_document(d) has returned, d is a member of every group     *)
(* that holds a value-distinct document sharing a field value with d,      *)
(* under whatever keys.                                                    *)
C3_NewDocJoinsLinkedGroups ==
    AddDocumentReturned =>
        \A g \in DOMAIN matches :
            (\E i \in DOMAIN matches[g].value : ValueLinked(last_doc, matches[g].value[i]))
                => PyIn(last_doc, matches[g].value)

(* the new document matches no sample itself and joined a group through a  *)
(* value it holds under another key than the member does                   *)
C3_Witness ==
    /\ AddDocumentReturned
    /\ \E g \in DOMAIN matches :
          /\ PyIn(last_doc, matches[g].value)
          /\ direct_match(Self, flatten_doc(last_doc)) = None
          /\ \E i \in DOMAIN matches[g].value :
                /\ ValueLinked(last_doc, matches[g].value[i])
                /\ \A e \in Range(last_doc.items) : \A f \in Range(matches[g].value[i].items) :
                      PyEq(e.value, f.value) => e.key # f.key

(* C4: when add_document has returned, every group is closed under the     *)
(* value-link relation over the whole history.                             *)
C4_GroupsClosed ==
    AddDocumentReturned =>
        \A g \in DOMAIN matches : \A d \in DOMAIN documents :
            (\E i \in DOMAIN matches[g].value : ValueLinked(documents[d], matches[g].value[i]))
                => PyIn(documents[d], matches[g].value)

(* C5: when add_document(d) has returned, d is in the group of every       *)
(* sample that has a top-level value equal to a leaf of d at any depth.    *)
C5_DirectSeeding ==
    AddDocumentReturned =>
        \A s \in DOMAIN samples :
            (\E leaf \in Leaves(last_doc) : SampleHasValue(samples[s].value, leaf))
                => PyIn(last_doc, Group(samples[s].key))

(* C6: direct_match of a flattened document returns exactly the ids of the *)
(* samples that have a top-level value equal to a value of the flattened   *)
(* document, each once, and None when there is no such sample.             *)
C6_DirectMatchExact ==
    \A d \in DictDocuments :
        LET flat == flatten_doc(d)
            ids == direct_match(Self, flat)
            expected == {samples[s].key : s \in
                           {s \in DOMAIN samples :
                               \E f \in DOMAIN flat : SampleHasValue(samples[s].value, flat[f].value)}}
        IN /\ Range(ids) = expected
           /\ Len(ids) = Cardinality(expected)
           /\ (expected = {} => ids = None)

(* two samples are registered and the document just added matches both     *)
C6_Witness ==
    /\ last_op = "add_document"
    /\ last_result = "ok"
    /\ Len(direct_match(Self, flatten_doc(last_doc))) = 2

(* C7: a sample holding a nested mapping is not directly matched by a      *)
(* document whose flattened leaf equals a field inside that mapping when   *)
(* no leaf equals one of the sample's top-level values.                    *)
C7_AsymmetricFlattening ==
    \A d \in DictDocuments : \A s \in DOMAIN samples :
        LET flat == flatten_doc(d)
            sample_desc == samples[s].value
            inner == UNION {Leaves(v) : v \in {w \in FieldValues(sample_desc) : w.kind = "dict"}}
        IN (/\ \E f \in DOMAIN flat : \E v \in inner : PyEq(flat[f].value, v)
            /\ ~\E f \in DOMAIN flat : SampleHasValue(sample_desc, flat[f].value))
           => samples[s].key \notin Range(direct_match(Self, flat))

(* a sample with a nested mapping is registered, the document just added   *)
(* has a leaf equal to a field inside it, and it is not in that group      *)
C7_Witness ==
    /\ AddDocumentReturned
    /\ \E s \in DOMAIN samples :
          /\ \E v \in FieldValues(samples[s].value) :
                /\ v.kind = "dict"
                /\ \E f \in Range(flatten_doc(last_doc)) : \E l \in Leaves(v) : PyEq(f.value, l)
          /\ ~PyIn(last_doc, Group(samples[s].key))

(* C8: flatten_doc of an ingested mapping has exactly the full dotted      *)
(* paths to its leaves as keys, each with its leaf as value.               *)
C8_FlattenFullPaths ==
    \A d \in DOMAIN documents :
        documents[d].kind = "dict" =>
            {<<e.key, e.value>> : e \in Range(flatten_doc(documents[d]))}
                = LeafPaths(documents[d].items, "")

(* C9: after a call that returned without error the persisted samples      *)
(* are the registry and each persisted group record holds exactly the      *)
(* documents of the in-memory group.                                       *)
C9_PersistenceMirrorsMemory ==
    last_result \in {"ok", "200"} =>
        /\ sample_table = {[sample_id |-> e.key, description |-> e.value] : e \in Range(samples)}
        /\ \A id \in SampleIds :
              {it.description : it \in {r \in matched_table : r.sample_id = id}}
                  = Range(Group(id))

(* C10: lambda_handler answers 500 whenever a record failed, and 200 only  *)
(* when every record of the batch was processed without error.             *)
C10_HandlerReportsFailure ==
    last_op = "lambda_handler" =>
        /\ (\E i \in DOMAIN outcomes : outcomes[i] # "ok") => last_result = "500"
        /\ last_result = "200" => \A i \in DOMAIN outcomes : outcomes[i] = "ok"

(* the batches lambda_handler is called with *)
Batches == SeqsUpTo(Bodies, MaxBatch)

(* add_document called on the decoded records one after the other, each   *)
(* call complete before the next begins                                    *)
RECURSIVE OneAtATime(_, _, _)
OneAtATime(self, records, i) ==
    IF i > Len(records) THEN self
    ELSE OneAtATime(add_document(self, json_loads(records[i])).self, records, i + 1)

(* C11: when a record of a batch fails, every later record of the batch    *)
(* that decodes is still passed to add_document.                           *)
C11_PerRecordIsolation ==
    [][last_op' = "lambda_handler" =>
         \A records \in Batches :
             LambdaHandlerCall(records) =>
                 \A i, j \in DOMAIN records :
                     (/\ i < j
                      /\ i <= Len(outcomes')
                      /\ outcomes'[i] # "ok"
                      /\ ~json_loads_raises(records[j]))
                     => (j <= Len(outcomes') /\ outcomes'[j] # "decode_error")
      ]_vars

(* C12: a record whose body does not decode to a mapping leaves the sample *)
(* registry, the document history and the match groups as they were.       *)
C12_FailedRecordLeavesState ==
    [][last_op' = "lambda_handler" =>
         \A body \in Bodies :
             (body.kind # "dict" /\ LambdaHandlerCall(<<body>>))
                 => UNCHANGED <<samples, documents, matches>>
      ]_vars

(* C13: a batch whose records all succeed leaves the history extended by   *)
(* the batch's documents in delivery order, and the state is the one that  *)
(* add_document reaches called on them one at a time in that order.        *)
C13_DeliveryOrder ==
    [][(last_op' = "lambda_handler" /\ last_result' = "200") =>
         \A records \in Batches :
             (Len(records) = Len(outcomes') /\ LambdaHandlerCall(records)) =>
                 /\ documents' = documents \o [i \in DOMAIN records |-> json_loads(records[i])]
                 /\ matches' = OneAtATime(Self, records, 1).matches
      ]_vars

(* a batch of two different documents succeeded and both are in one group  *)
C13_Witness ==
    /\ last_op = "lambda_handler"
    /\ last_result = "200"
    /\ Len(outcomes) = 2
    /\ documents[Len(documents) - 1] # documents[Len(documents)]
    /\ \E g \in DOMAIN matches :
          /\ PyIn(documents[Len(documents) - 1], matches[g].value)
          /\ PyIn(documents[Len(documents)], matches[g].value)

(* the group of sample_id in a matches mapping, empty when there is none   *)
GroupIn(ms, sample_id) == IF HasKey(ms, sample_id) THEN Get(ms, sample_id) ELSE <<>>

(* the documents written for sample_id, in the order of the writes *)
PutsFor(log, sample_id) ==
    LET own == SelectSeq(log, LAMBDA it : it.sample_id = sample_id)
    IN [i \in 1..Len(own) |-> own[i].description]

(* d directly matches the registered sample sample_id: a value of the      *)
(* flattened d equals a top-level value of the sample's description        *)
DirectlyMatches(sample_id, d) ==
    /\ d.kind = "dict"
    /\ \E s \in DOMAIN samples :
          /\ samples[s].key = sample_id
          /\ \E f \in Range(flatten_doc(d)) : SampleHasValue(samples[s].value, f.value)

(* C14: a history document that shares a field value with a value-distinct *)
(* member of a group without being a member of it, in the state an          *)
(* add_document call returned in, is a member of that group when the next   *)
(* add_document call returns (add_sample calls in between change neither    *)
(* the history nor the groups).                                             *)
C14_PullInOnNextCall ==
    [][(last_op' = "add_document" /\ last_result' = "ok") =>
         \A d \in DOMAIN documents : \A g \in DOMAIN matches :
             (/\ \E m \in DOMAIN matches[g].value :
                    ValueLinked(documents[d], matches[g].value[m])
              /\ ~PyIn(documents[d], matches[g].value))
             => PyIn(documents[d], GroupIn(matches', matches[g].key))
      ]_vars

(* DA, DB, DC were added in this order, which leaves DA out of the group    *)
(* <<DC, DB>>; the fourth call has pulled DA in                             *)
C14_Witness ==
    /\ Len(documents) = 4
    /\ documents[1] = DA /\ documents[2] = DB /\ documents[3] = DC
    /\ \E g \in DOMAIN matches : matches[g].value = <<DC, DB, DA>>

(* C15: in every call the writes to the matched table for a sample id are  *)
(* exactly the documents newly appended to that sample's group, in order:  *)
(* one write per new membership, none for a document already present.      *)
C15_WriteIffNewMember ==
    [][\A id \in SampleIds :
          PutsFor(put_log', id)
              = SubSeq(GroupIn(matches', id), Len(GroupIn(matches, id)) + 1,
                       Len(GroupIn(matches', id)))
      ]_vars

(* one call wrote a direct and an indirect membership of the same group,   *)
(* and the document added is a value-equal copy of an earlier one          *)
C15_Witness ==
    /\ last_op = "add_document"
    /\ Len(put_log) = 2
    /\ put_log[1].sample_id = put_log[2].sample_id
    /\ \E i \in DOMAIN documents : i < Len(documents) /\ PyEq(documents[i], last_doc)

(* C16: a document newly appended to the group of a sample directly        *)
(* matches that sample or shares a top-level field value with a            *)
(* value-distinct document that was in the group before it.                *)
C16_SoundMembership ==
    [][\A g \in DOMAIN matches' :
          \A k \in DOMAIN matches'[g].value :
              k > Len(GroupIn(matches, matches'[g].key)) =>
                  \/ DirectlyMatches(matches'[g].key, matches'[g].value[k])
                  \/ \E j \in 1..(k - 1) :
                        ValueLinked(matches'[g].value[k], matches'[g].value[j])
      ]_vars

(* a group of three: the first member matches the sample, the third is     *)
(* linked to the second only                                               *)
C16_Witness ==
    \E g \in DOMAIN matches :
        /\ Len(matches[g].value) = 3
        /\ DirectlyMatches(matches[g].key, matches[g].value[1])
        /\ ~DirectlyMatches(matches[g].key, matches[g].value[3])
        /\ ~SharesValue(matches[g].value[3], matches[g].value[1])
        /\ ValueLinked(matches[g].value[3], matches[g].value[2])

(* C17: add_sample sets the registry entry of its id and the persisted     *)
(* copy, and leaves the other entries, the history, the groups and the     *)
(* matched table as they were.                                             *)
C17_AddSampleFrame ==
    [][last_op' = "add_sample" =>
         \A call \in SampleCalls :
             AddSampleCall(call[1], call[2]) =>
                 /\ documents' = documents
                 /\ matches' = matches
                 /\ matched_table' = matched_table
                 /\ Keys(samples') = Keys(samples) \cup {call[1]}
                 /\ Get(samples', call[1]) = call[2]
                 /\ \A k \in Keys(samples) \ {call[1]} : Get(samples', k) = Get(samples, k)
                 /\ sample_table' = {[sample_id |-> e.key, description |-> e.value] :
                                        e \in Range(samples')}
      ]_vars

(* a sample was registered after a document that matches it, and the       *)
(* document is in no group                                                 *)
C17_Witness ==
    /\ last_op = "add_sample"
    /\ matches = <<>>
    /\ \E d \in DOMAIN documents : \E s \in DOMAIN samples :
          DirectlyMatches(samples[s].key, documents[d])

(* C18: every member of every group is value-equal to a document of the    *)
(* history.                                                                *)
C18_MembersAreIngested ==
    \A g \in DOMAIN matches :
        \A k \in DOMAIN matches[g].value : PyIn(matches[g].value[k], documents)

(* a group of two next to a history document that is in no group           *)
C18_Witness ==
    /\ Len(documents) = 3
    /\ \E g \in DOMAIN matches : Len(matches[g].value) = 2
    /\ \E d \in DOMAIN documents :
          \A g \in DOMAIN matches : ~PyIn(documents[d], matches[g].value)

(* C19: every key of the match groups is a registered sample id and every  *)
(* group has a member.                                                     *)
C19_GroupsOfSamplesNonEmpty ==
    \A g \in DOMAIN matches :
        /\ HasKey(samples, matches[g].key)
        /\ matches[g].value # <<>>

(* two groups exist, one per registered sample *)
C19_Witness ==
    /\ Len(matches) = 2
    /\ Len(samples) = 2

====
